---- MODULE Spec2Model ----
(***************************************************************************)
(* A model of the TestRail client of src/testrail.py: the client session   *)
(* (resolved identifiers, run-case cache), the HTTP transport and the      *)
(* entity operations built on it.  Every public operation is one action;   *)
(* the action records the call, its outcome (return value or exception)    *)
(* and the HTTP requests it issued, in order.                              *)
(*                                                                         *)
(* Python values: None of an identifier is 0 (server ids are positive, and *)
(* the code tests identifiers by truthiness), None of a name is "None".    *)
(* Run and plan-entry names are sequences of tokens, so that the           *)
(* substring test `a in b` is computed and not assumed.                    *)
(***************************************************************************)
EXTENDS Integers, Sequences, FiniteSets, TLC

VARIABLES
    project,        \* self.__project
    project_id,     \* self.__project_id
    suite,          \* self.__suite
    suite_id,       \* self.__suite_id
    run_id,         \* self.__run_id
    cases_in_run,   \* self.cases_in_run: run id -> list of test records
    last,           \* the call the caller has made and not yet taken the outcome of:
                    \* operation, arguments, the server's data, outcome, requests
    fetched,        \* run ids whose tests update_test_result has fetched
    project_set,    \* the last assignment of project that completed gave a name, not None
    suite_set       \* the last assignment of suite that completed gave a name, not None

vars == <<project, project_id, suite, suite_id, run_id, cases_in_run,
          last, fetched, project_set, suite_set>>

-----------------------------------------------------------------------------
(* Bounds *)

MaxCase == 2      \* case ids are 1..MaxCase
MaxLen == 2       \* longest list of case ids passed to an operation
MaxFaultAt == 7   \* the server may answer the n-th request of a call, n <= MaxFaultAt, with an HTTP error
                  \* (update_test_run, the longest operation, issues 7 requests)

None == "None"
NoId == 0

Cases == 1..MaxCase
Runs == {1, 2}

RECURSIVE SeqsUpTo(_, _)
SeqsUpTo(S, n) ==
    IF n = 0 THEN {<<>>}
    ELSE LET shorter == SeqsUpTo(S, n - 1)
         IN  shorter \cup {Append(s, x) : s \in {t \in shorter : Len(t) = n - 1}, x \in S}

Range(s) == {s[i] : i \in 1..Len(s)}

-----------------------------------------------------------------------------
(* The server's data, as the API returns it *)

Projects == <<[id |-> 1, name |-> "Velocloud"], [id |-> 2, name |-> "Other"]>>

SuitesOf(pid) ==
    IF pid = 1 THEN <<[id |-> 1, name |-> "Master"], [id |-> 2, name |-> "Smoke"]>>
    ELSE <<[id |-> 3, name |-> "Master"]>>

PlansOf(pid) ==
    IF pid = 1 THEN <<[id |-> 1, name |-> "Regression"], [id |-> 2, name |-> "Nightly"]>>
    ELSE <<>>

ProjectNames == {"Velocloud", "Nope"}
SuiteNames == {"Master", "Nope"}
PlanNames == {"Regression", "Nope"}
RunNames == {<<"b">>, <<"c">>}

\* a plan entry with its single run
Entry(entry_name, run_name, rid, eid) ==
    [name |-> entry_name,
     runs |-> <<[id |-> rid, name |-> run_name, entry_id |-> eid]>>]

\* the entry lists a plan may hold: names equal to the run names, a run name
\* that is a substring of another, entry names that differ from the run
\* names, and an entry whose run carries another name
PlanLayouts ==
    { <<Entry(<<"ts", "a">>, <<"ts", "a">>, 1, 11), Entry(<<"ts", "b">>, <<"ts", "b">>, 2, 12)>>,
      <<Entry(<<"ts", "a", "b">>, <<"ts", "a", "b">>, 1, 11), Entry(<<"ts", "b">>, <<"ts", "b">>, 2, 12)>>,
      <<Entry(<<"ts", "a">>, <<"ts", "b">>, 1, 11), Entry(<<"ts", "b">>, <<"ts", "a">>, 2, 12)>>,
      <<Entry(<<"ts", "b">>, <<"ts", "a">>, 1, 11)>> }

\* test records of a run holding the cases cs: the test id differs from the case id
TestId(rid, c) == 10 * rid + c

RECURSIVE TestsOf(_, _)
TestsOf(rid, cs) ==
    IF cs = {} THEN <<>>
    ELSE LET c == CHOOSE x \in cs : \A y \in cs : x <= y
         IN  <<[id |-> TestId(rid, c), case_id |-> c]>> \o TestsOf(rid, cs \ {c})

-----------------------------------------------------------------------------
(* Transport: __send_request *)

\* response bodies the server may send; DataBody stands for the JSON text of
\* the entity a successful request asked for
DataBody == "<json of the requested entity>"
ErrorBody == "{\"error\": \"msg\"}"
Bodies == {"", ErrorBody, "{\"error\": 5}", "{\"x\": 1}", "{}", "[1]", "null", "5", "<html>"}

\* a decoded JSON value: its Python type, its length (its value, for an int),
\* whether `'error' in value` holds, and value['error'] when it is a string
Value(t, size, has_error, error, error_is_str) ==
    [exc |-> "none", t |-> t, size |-> size, has_error |-> has_error,
     error |-> error, error_is_str |-> error_is_str]

EmptyDict == Value("dict", 0, FALSE, "", FALSE)

\* json.loads(response.decode()): exc is "none" or the exception it raises
json_loads(body) ==
    CASE body = ErrorBody -> Value("dict", 1, TRUE, "msg", TRUE)
      [] body = "{\"error\": 5}" -> Value("dict", 1, TRUE, "", FALSE)
      [] body = "{\"x\": 1}" -> Value("dict", 1, FALSE, "", FALSE)
      [] body = "{}" -> EmptyDict
      [] body = "[1]" -> Value("list", 1, FALSE, "", FALSE)
      [] body = "null" -> Value("NoneType", 0, FALSE, "", FALSE)
      [] body = "5" -> Value("int", 5, FALSE, "", FALSE)
      [] body = DataBody -> Value("data", 1, FALSE, "", FALSE)
      [] OTHER -> [EmptyDict EXCEPT !.exc = "JSONDecodeError"]

\* bool(value)
Truthy(val) == val.t # "NoneType" /\ val.size # 0

GenericError == "No additional error message received"

\* what a request leaves: the exception raised ("none": it returned result)
Sent(exc, msg, result) == [exc |-> exc, msg |-> msg, result |-> result]

\* the second half of __send_request, `if e is not None: ... return result`:
\* err says that urlopen raised HTTPError, result is the decoded body
raise_or_return(err, result) ==
    IF result.exc # "none" THEN Sent(result.exc, "", EmptyDict)
    ELSE IF ~err THEN Sent("none", "", result)
    ELSE IF ~Truthy(result) THEN Sent("APIError", GenericError, EmptyDict)
    ELSE IF result.t = "int" THEN Sent("TypeError", "", EmptyDict)
    ELSE IF ~result.has_error THEN Sent("APIError", GenericError, EmptyDict)
    ELSE IF result.t # "dict" \/ ~result.error_is_str THEN Sent("TypeError", "", EmptyDict)
    ELSE Sent("APIError", result.error, EmptyDict)

\* __send_request, given the response the server sends: resp.err says that
\* urlopen raised HTTPError, resp.body is the body read
send_request(method, resp) ==
    raise_or_return(resp.err, IF resp.body # "" THEN json_loads(resp.body) ELSE EmptyDict)

-----------------------------------------------------------------------------
(* Requests of a call, and the server that answers them *)

\* the server's plans and runs while a call lasts
Server(layout, cs) ==
    [entries |-> [p \in {1, 2} |-> IF p = 1 THEN layout ELSE <<>>],
     tests |-> [r \in Runs |-> TestsOf(r, IF r = 1 THEN cs ELSE Cases \ cs)]]

AlignedLayout ==
    <<Entry(<<"ts", "a">>, <<"ts", "a">>, 1, 11), Entry(<<"ts", "b">>, <<"ts", "b">>, 2, 12)>>

Servers == {Server(l, cs) : l \in PlanLayouts, cs \in SUBSET Cases}
RunServers == {Server(AlignedLayout, cs) : cs \in SUBSET Cases}
PlanServers == {Server(l, {}) : l \in PlanLayouts}
NoServer == Server(<<>>, {})

\* get_tests of the server: the test records of the run
TestsOfRun(srv, rid) == IF rid \in Runs THEN srv.tests[rid] ELSE <<>>

\* get_plan of the server: the entries of the plan
EntriesOfPlan(srv, plan_id) == IF plan_id \in DOMAIN srv.entries THEN srv.entries[plan_id] ELSE <<>>

NoBody == [include_all |-> FALSE, case_ids |-> <<>>, case_ids_none |-> FALSE,
           name |-> <<>>, suite_id |-> NoId, results |-> <<>>]

Req(method, ep, a, b, body) ==
    [method |-> method, ep |-> ep, a |-> a, b |-> b, body |-> body]

\* a fault: the server answers the at-th request of the call with an HTTP
\* error and its structured message (at = 0: no error)
NoFault == [at |-> 0, body |-> ""]
Faults == {NoFault} \cup [at : 1..MaxFaultAt, body : {ErrorBody}]

\* the response to the n-th request of a call; get_tests of an id that is no
\* run of the server is an HTTP error with the server's message
Response(req, n, fault) ==
    IF fault.at = n THEN [err |-> TRUE, body |-> fault.body]
    ELSE IF req.ep = "get_tests" /\ req.a \notin Runs THEN [err |-> TRUE, body |-> ErrorBody]
    ELSE [err |-> FALSE, body |-> DataBody]

\* what a step of a call leaves: the exception raised, the requests issued so
\* far, and what it found: an entity (found, id) or a list
Step(exc, msg, reqs, found, id, list) ==
    [exc |-> exc, msg |-> msg, reqs |-> reqs, found |-> found, id |-> id, list |-> list]

Failed(r) == Step(r.exc, r.msg, r.reqs, FALSE, NoId, <<>>)

Answered(reqs, req, sent) == Step(sent.exc, sent.msg, Append(reqs, req), FALSE, NoId, <<>>)

\* send_get / send_post: the request is appended to the requests of the call
Send(reqs, fault, req) ==
    Answered(reqs, req, send_request(req.method, Response(req, Len(reqs) + 1, fault)))

send_get(reqs, fault, ep, a) == Send(reqs, fault, Req("GET", ep, a, NoId, NoBody))

send_post(reqs, fault, ep, a, b, body) == Send(reqs, fault, Req("POST", ep, a, b, body))

-----------------------------------------------------------------------------
(* Name resolver *)

\* the least element of a set of indices, 0 when it is empty: where a loop
\* that returns at the first match stops
First(hits) == IF hits = {} THEN 0 ELSE CHOOSE i \in hits : \A j \in hits : i <= j

\* index of the first record of list whose name is name, 0 when there is none
\* (the loop `for x in list: if name == x["name"]: return x`, then `return None`)
FirstByName(list, name) == First({i \in 1..Len(list) : list[i].name = name})

\* `a in b` of two strings
IsSubstring(a, b) ==
    \E i \in 0..(Len(b) - Len(a)) : SubSeq(b, i + 1, i + Len(a)) = a

\* the project_id property
project_id_property ==
    IF project_id # NoId THEN Step("none", "", <<>>, TRUE, project_id, <<>>)
    ELSE Step("EnvironmentError", "", <<>>, FALSE, NoId, <<>>)

\* the suite_id property
suite_id_property ==
    IF suite_id # NoId THEN Step("none", "", <<>>, TRUE, suite_id, <<>>)
    ELSE Step("EnvironmentError", "", <<>>, FALSE, NoId, <<>>)

\* the loop of the resolvers over the list g has fetched: the first record
\* named name, or None
by_name(g, list, name) ==
    IF g.exc # "none" THEN Failed(g)
    ELSE IF FirstByName(list, name) = 0 THEN Step("none", "", g.reqs, FALSE, NoId, <<>>)
    ELSE Step("none", "", g.reqs, TRUE, list[FirstByName(list, name)].id, <<>>)

\* __get_project_by_name, and __get_projects under it
get_project_by_name(reqs, fault, project_name) ==
    by_name(send_get(reqs, fault, "get_projects", NoId), Projects, project_name)

\* __get_suite_by_name with project_id=None, and __get_suites under it
get_suite_by_name(reqs, fault, suite_name) ==
    IF project_id_property.exc # "none"
    THEN Step(project_id_property.exc, "", reqs, FALSE, NoId, <<>>)
    ELSE by_name(send_get(reqs, fault, "get_suites", project_id), SuitesOf(project_id), suite_name)

\* _get_plan_by_name with project_id=None, and _get_plans under it
get_plan_by_name(reqs, fault, plan_name) ==
    IF project_id_property.exc # "none"
    THEN Step(project_id_property.exc, "", reqs, FALSE, NoId, <<>>)
    ELSE by_name(send_get(reqs, fault, "get_plans", project_id), PlansOf(project_id), plan_name)

\* index of the first entry of the plan whose run name contains run_name
FirstRunMatch(plan_entries, run_name) ==
    First({i \in 1..Len(plan_entries) : IsSubstring(run_name, plan_entries[i].runs[1].name)})

\* index of the first entry of the plan whose entry name contains run_name
FirstEntryMatch(plan_entries, run_name) ==
    First({i \in 1..Len(plan_entries) : IsSubstring(run_name, plan_entries[i].name)})

\* the loop of get_run_id over the entries of the plan g has fetched: found
\* is FALSE when the function falls off its loop and returns None
run_of_plan(g, plan_entries, run_name) ==
    IF g.exc # "none" THEN Failed(g)
    ELSE IF FirstRunMatch(plan_entries, run_name) = 0 THEN Step("none", "", g.reqs, FALSE, NoId, <<>>)
    ELSE Step("none", "", g.reqs, TRUE, plan_entries[FirstRunMatch(plan_entries, run_name)].runs[1].id, <<>>)

\* get_run_id from `complete_plan = self._get_plan(plan["id"])` on
get_run_id_in(fault, srv, run_name, plan) ==
    IF plan.exc # "none" THEN Failed(plan)
    ELSE IF ~plan.found THEN Step("TypeError", "", plan.reqs, FALSE, NoId, <<>>)
    ELSE run_of_plan(send_get(plan.reqs, fault, "get_plan", plan.id),
                     EntriesOfPlan(srv, plan.id), run_name)

get_run_id(reqs, fault, srv, plan_name, run_name) ==
    get_run_id_in(fault, srv, run_name, get_plan_by_name(reqs, fault, plan_name))

-----------------------------------------------------------------------------
(* Run reconciliation *)

\* elem['case_id'] of every test record of the list
CaseIdsOf(tc_list) == [i \in 1..Len(tc_list) |-> tc_list[i].case_id]

\* list(s): the elements of the set s, once each, in the iteration order ord
ListOfSet(s, ord) == SelectSeq(ord, LAMBDA x : x \in s)

\* a filter of test_list that keeps its repetitions
filtered_cases(g, test_case_list, test_list, ord) ==
    IF g.exc # "none" THEN Failed(g)
    ELSE IF test_list.none THEN Step("TypeError", "", g.reqs, FALSE, NoId, <<>>)
    ELSE Step("none", "", g.reqs, TRUE, NoId,
              SelectSeq(test_list.list, LAMBDA x : x \notin Range(CaseIdsOf(test_case_list))))

\* check_test_id_duplicate from `new_list = []` on: g is the request for the
\* test records test_case_list; test_list.none says that test_list is None
new_cases(g, test_case_list, test_list, ord) ==
    IF g.exc # "none" THEN Failed(g)
    ELSE IF test_list.none THEN Step("TypeError", "", g.reqs, FALSE, NoId, <<>>)
    ELSE Step("none", "", g.reqs, TRUE, NoId,
              ListOfSet(Range(test_list.list) \ Range(CaseIdsOf(test_case_list)), ord))

check_test_id_duplicate(reqs, fault, srv, test_list, rid, ord) ==
    new_cases(send_get(reqs, fault, "get_tests", rid), TestsOfRun(srv, rid), test_list, ord)

\* the list a request g for test records returns
fetched_list(g, list) ==
    IF g.exc # "none" THEN Failed(g) ELSE Step("none", "", g.reqs, TRUE, NoId, list)

\* get_cases_in_run
get_cases_in_run(reqs, fault, srv, rid) ==
    fetched_list(send_get(reqs, fault, "get_tests", rid), TestsOfRun(srv, rid))

\* a lookup that takes the first test record whatever its case id is
FirstOfAny(tc_list, case_id) == First(DOMAIN tc_list)

\* index of the first test record of tc_list whose case id is case_id
FirstByCase(tc_list, case_id) == First({i \in 1..Len(tc_list) : tc_list[i].case_id = case_id})

\* the loop of __check_case_in_run over tc_list: the test id, or False (found
\* is FALSE)
case_in_list(g, case_id) ==
    IF g.exc # "none" THEN Failed(g)
    ELSE IF FirstByCase(g.list, case_id) = 0 THEN Step("none", "", g.reqs, FALSE, NoId, g.list)
    ELSE Step("none", "", g.reqs, TRUE, g.list[FirstByCase(g.list, case_id)].id, g.list)

\* __check_case_in_run
check_case_in_run(reqs, fault, srv, rid, case_id) ==
    case_in_list(IF rid \notin DOMAIN cases_in_run
                 THEN get_cases_in_run(reqs, fault, srv, rid)
                 ELSE Step("none", "", reqs, TRUE, NoId, cases_in_run[rid]),
                 case_id)

-----------------------------------------------------------------------------
(* Entity operations *)

\* truthiness of a case_ids argument: neither None nor an empty list
NonEmpty(case_ids) == ~case_ids.none /\ Len(case_ids.list) > 0

\* format_testrun: the name with the time stamp put before it
format_testrun(test_run) == <<"ts">> \o test_run

\* the outcome of a call: the exception raised ("none": it returned), what it
\* returned, and the requests it issued
Out(exc, msg, ret, ret_id, ret_list, reqs) ==
    [exc |-> exc, msg |-> msg, ret |-> ret, ret_id |-> ret_id,
     ret_list |-> ret_list, reqs |-> reqs]

Raised(r) == Out(r.exc, r.msg, "None", NoId, <<>>, r.reqs)

\* `return self.send_post(...)`: the decoded response, or what the request raised
posted(post) ==
    IF post.exc # "none" THEN Raised(post) ELSE Out("none", "", "response", NoId, <<>>, post.reqs)

\* the body add_default_test_run_entry_to_plan posts
test_run_entry(test_run_name, include_all, case_ids) ==
    [NoBody EXCEPT !.suite_id = suite_id,
                   !.name = format_testrun(test_run_name),
                   !.include_all = include_all,
                   !.case_ids = case_ids.list,
                   !.case_ids_none = case_ids.none]

\* add_default_test_run_entry_to_plan from `if plan is None` on
add_entry_to(fault, test_run_name, include_all, case_ids, plan) ==
    IF plan.exc # "none" THEN Raised(plan)
    ELSE IF ~plan.found THEN Out("APIError", "testrail plan not found", "None", NoId, <<>>, plan.reqs)
    ELSE IF suite_id_property.exc # "none" THEN Out(suite_id_property.exc, "", "None", NoId, <<>>, plan.reqs)
    ELSE posted(send_post(plan.reqs, fault, "add_plan_entry", plan.id, NoId,
                          test_run_entry(test_run_name, include_all, case_ids)))

\* add_default_test_run_entry_to_plan from `if not include_all and not case_ids` on
add_entry_guarded(fault, test_run_name, plan_name, include_all, case_ids) ==
    IF ~include_all /\ ~NonEmpty(case_ids) THEN Out("none", "", "False", NoId, <<>>, <<>>)
    ELSE add_entry_to(fault, test_run_name, include_all, case_ids,
                      get_plan_by_name(<<>>, fault, plan_name))

add_default_test_run_entry_to_plan(fault, test_run_name, plan_name, case_ids) ==
    add_entry_guarded(fault, test_run_name, plan_name, ~NonEmpty(case_ids), case_ids)

\* a body that carries the new case ids only
entry_of_new_only(case_ids, existing_tests) ==
    [NoBody EXCEPT !.include_all = FALSE, !.case_ids = case_ids]

\* the body update_test_run posts: case_ids with the case ids of existing_tests appended
merged_entry(case_ids, existing_tests) ==
    [NoBody EXCEPT !.include_all = FALSE, !.case_ids = case_ids \o CaseIdsOf(existing_tests)]

\* update_test_run from `for elem in existing_tests` on
update_entry(fault, plan_id, entry_id, case_ids, existing_tests) ==
    IF existing_tests.exc # "none" THEN Raised(existing_tests)
    ELSE posted(send_post(existing_tests.reqs, fault, "update_plan_entry", plan_id, entry_id,
                          merged_entry(case_ids, existing_tests.list)))

\* update_test_run from `if not case_ids` on
update_with_new(fault, srv, test_run_id, plan_id, entry_id, case_ids) ==
    IF case_ids.exc # "none" THEN Raised(case_ids)
    ELSE IF case_ids.list = <<>> THEN Out("none", "", "False", NoId, <<>>, case_ids.reqs)
    ELSE update_entry(fault, plan_id, entry_id, case_ids.list,
                      get_cases_in_run(case_ids.reqs, fault, srv, test_run_id))

\* update_test_run from its loop over plan_detail['entries'] on: i is the
\* index of the first entry whose name contains test_run_name, 0 for none
update_in_plan(fault, srv, test_run_id, plan_id, plan_detail, plan_entries, i, case_ids, ord) ==
    IF plan_detail.exc # "none" THEN Raised(plan_detail)
    ELSE IF i = 0 THEN Out("none", "", "False", NoId, <<>>, plan_detail.reqs)
    ELSE update_with_new(fault, srv, test_run_id, plan_id, plan_entries[i].runs[1].entry_id,
                         check_test_id_duplicate(plan_detail.reqs, fault, srv, case_ids, test_run_id, ord))

\* update_test_run from `plan_detail = self._get_plan(plan['id'])` on
update_of_plan(fault, srv, test_run_name, test_run_id, plan, case_ids, ord) ==
    IF plan.exc # "none" THEN Raised(plan)
    ELSE IF ~plan.found THEN Out("TypeError", "", "None", NoId, <<>>, plan.reqs)
    ELSE update_in_plan(fault, srv, test_run_id, plan.id,
                        send_get(plan.reqs, fault, "get_plan", plan.id),
                        EntriesOfPlan(srv, plan.id),
                        FirstEntryMatch(EntriesOfPlan(srv, plan.id), test_run_name),
                        case_ids, ord)

\* update_test_run from `plan = self._get_plan_by_name(plan_name)` on
update_of_run(fault, srv, test_run_name, plan_name, run, case_ids, ord) ==
    IF run.exc # "none" THEN Raised(run)
    ELSE update_of_plan(fault, srv, test_run_name, run.id,
                        get_plan_by_name(run.reqs, fault, plan_name), case_ids, ord)

update_test_run(fault, srv, test_run_name, plan_name, case_ids, ord) ==
    update_of_run(fault, srv, test_run_name, plan_name,
                  get_run_id(<<>>, fault, srv, plan_name, test_run_name), case_ids, ord)

\* self.result_map and self.result_map.get(outcome, default)
result_map == [passed |-> 1, failed |-> 5]

\* a status lookup whose default is "passed"
result_map_get_passed(outcome, default) ==
    IF outcome \in DOMAIN result_map THEN result_map[outcome] ELSE result_map["passed"]

result_map_get(outcome, default) ==
    IF outcome \in DOMAIN result_map THEN result_map[outcome] ELSE default

\* math.ceil(duration), the duration given in tenths of a second
ceil(duration) == (duration + 9) \div 10

\* time.strftime('%Hh %Mm %Ss', time.gmtime(secs))
strftime(secs) == [h |-> (secs \div 3600) % 24, m |-> (secs \div 60) % 60, s |-> secs % 60]

\* the body update_test_result posts
result_data(test_id, report) ==
    [NoBody EXCEPT !.results =
        <<[test_id |-> test_id,
           status_id |-> result_map_get(report.outcome, 5),
           elapsed |-> strftime(ceil(report.duration)),
           comment |-> report.longreprtext]>>]

\* update_test_result from `if not test_id` on
post_result(fault, rid, report, test) ==
    IF test.exc # "none" THEN Raised(test)
    ELSE IF ~test.found THEN Out("none", "", "False", NoId, <<>>, test.reqs)
    ELSE posted(send_post(test.reqs, fault, "add_results", rid, NoId, result_data(test.id, report)))

update_test_result(fault, srv, rid, case_id, report) ==
    post_result(fault, rid, report, check_case_in_run(<<>>, fault, srv, rid, case_id))

-----------------------------------------------------------------------------
(* The state machine: a caller makes one call at a time (an action per    *)
(* operation) and then takes its outcome (Return)                          *)

CaseLists == SeqsUpTo(Cases, MaxLen)
CaseIdArgs == {[none |-> TRUE, list |-> <<>>]} \cup {[none |-> FALSE, list |-> l] : l \in CaseLists}
Outcomes == {"passed", "failed", "skipped"}
Reports == [outcome : Outcomes, duration : {36615}, longreprtext : {"trace"}]

\* the orders in which list(set) may enumerate case ids: ascending, descending
Orders == {[i \in 1..MaxCase |-> i], [i \in 1..MaxCase |-> MaxCase + 1 - i]}

NoArgs == [name |-> None, run_name |-> <<>>, run |-> NoId, case |-> NoId,
           case_ids |-> [none |-> TRUE, list |-> <<>>], outcome |-> "",
           method |-> "", resp_err |-> FALSE, resp_body |-> ""]

\* some request of the call was answered with an HTTP error
HttpError(reqs, fault) == \E n \in 1..Len(reqs) : Response(reqs[n], n, fault).err

Call(op, args, srv, out, fault) ==
    [op |-> op, args |-> args, srv |-> srv, out |-> out,
     http_error |-> HttpError(out.reqs, fault)]

NoCall == Call("none", NoArgs, NoServer, Out("none", "", "None", NoId, <<>>, <<>>), NoFault)

Ready == last = NoCall

\* the state after Testrail(user, password): __init__ has resolved the
\* project "Velocloud" and the suite "Master"
Init ==
    /\ project = "Velocloud"
    /\ project_id = 1
    /\ suite = "Master"
    /\ suite_id = 1
    /\ run_id = NoId
    /\ cases_in_run = <<>>
    /\ last = NoCall
    /\ fetched = {}
    /\ project_set = TRUE
    /\ suite_set = TRUE

\* what a setter leaves: it returns None, or raises what the resolver raised,
\* or raises TypeError on None["id"]
setter_outcome(name, r) ==
    IF name = None THEN Out("none", "", "None", NoId, <<>>, <<>>)
    ELSE IF r.exc # "none" THEN Raised(r)
    ELSE IF ~r.found THEN Out("TypeError", "", "None", NoId, <<>>, r.reqs)
    ELSE Out("none", "", "None", NoId, <<>>, r.reqs)

\* a setter that keeps the id it held when the name is None
kept_id(name, r, old) == IF r.exc = "none" /\ r.found THEN r.id ELSE old

\* the id a setter stores
setter_id(name, r, old) ==
    IF name = None THEN NoId
    ELSE IF r.exc = "none" /\ r.found THEN r.id
    ELSE old

\* the project setter
SetProject(project_name, fault) ==
    LET r == get_project_by_name(<<>>, fault, project_name)
        out == setter_outcome(project_name, r)
    IN  /\ project' = project_name
        /\ project_id' = setter_id(project_name, r, project_id)
        /\ project_set' = IF project_name = None THEN FALSE
                          ELSE IF out.exc = "none" THEN TRUE ELSE project_set
        /\ last' = Call("project=", [NoArgs EXCEPT !.name = project_name], NoServer, out, fault)
        /\ UNCHANGED <<suite, suite_id, run_id, cases_in_run, fetched, suite_set>>

\* the suite setter
SetSuite(suite_name, fault) ==
    LET r == get_suite_by_name(<<>>, fault, suite_name)
        out == setter_outcome(suite_name, r)
    IN  /\ suite' = suite_name
        /\ suite_id' = setter_id(suite_name, r, suite_id)
        /\ suite_set' = IF suite_name = None THEN FALSE
                        ELSE IF out.exc = "none" THEN TRUE ELSE suite_set
        /\ last' = Call("suite=", [NoArgs EXCEPT !.name = suite_name], NoServer, out, fault)
        /\ UNCHANGED <<project, project_id, run_id, cases_in_run, fetched, project_set>>

Session == <<project, project_id, suite, suite_id, run_id, cases_in_run>>

\* reading the project_id property
ReadProjectId ==
    LET p == project_id_property
    IN  /\ last' = Call("project_id", NoArgs, NoServer,
                        Out(p.exc, "", IF p.exc = "none" THEN "id" ELSE "None", p.id, <<>>, <<>>), NoFault)
        /\ UNCHANGED <<Session, fetched, project_set, suite_set>>

\* reading the suite_id property
ReadSuiteId ==
    LET p == suite_id_property
    IN  /\ last' = Call("suite_id", NoArgs, NoServer,
                        Out(p.exc, "", IF p.exc = "none" THEN "id" ELSE "None", p.id, <<>>, <<>>), NoFault)
        /\ UNCHANGED <<Session, fetched, project_set, suite_set>>

\* the run_id setter
SetRunId(rid, srv, fault) ==
    LET g == get_cases_in_run(<<>>, fault, srv, rid)
    IN  /\ run_id' = rid
        /\ cases_in_run' = IF g.exc = "none" THEN [x \in {rid} |-> g.list] ELSE cases_in_run
        /\ last' = Call("run_id=", [NoArgs EXCEPT !.run = rid], srv,
                        IF g.exc = "none" THEN Out("none", "", "None", NoId, <<>>, g.reqs) ELSE Raised(g),
                        fault)
        /\ UNCHANGED <<project, project_id, suite, suite_id, fetched, project_set, suite_set>>

AddDefaultTestRunEntryToPlan(test_run_name, plan_name, case_ids, fault) ==
    /\ last' = Call("add_default_test_run_entry_to_plan",
                    [NoArgs EXCEPT !.run_name = test_run_name, !.name = plan_name, !.case_ids = case_ids],
                    NoServer,
                    add_default_test_run_entry_to_plan(fault, test_run_name, plan_name, case_ids), fault)
    /\ UNCHANGED <<Session, fetched, project_set, suite_set>>

UpdateTestRun(test_run_name, plan_name, case_ids, ord, srv, fault) ==
    /\ last' = Call("update_test_run",
                    [NoArgs EXCEPT !.run_name = test_run_name, !.name = plan_name, !.case_ids = case_ids],
                    srv,
                    update_test_run(fault, srv, test_run_name, plan_name, case_ids, ord), fault)
    /\ UNCHANGED <<Session, fetched, project_set, suite_set>>

CheckTestIdDuplicate(test_list, rid, ord, srv, fault) ==
    LET r == check_test_id_duplicate(<<>>, fault, srv, test_list, rid, ord)
    IN  /\ last' = Call("check_test_id_duplicate",
                        [NoArgs EXCEPT !.case_ids = test_list, !.run = rid], srv,
                        IF r.exc = "none" THEN Out("none", "", "list", NoId, r.list, r.reqs) ELSE Raised(r),
                        fault)
        /\ UNCHANGED <<Session, fetched, project_set, suite_set>>

GetRunId(plan_name, run_name, srv, fault) ==
    LET r == get_run_id(<<>>, fault, srv, plan_name, run_name)
    IN  /\ last' = Call("get_run_id",
                        [NoArgs EXCEPT !.run_name = run_name, !.name = plan_name], srv,
                        IF r.exc # "none" THEN Raised(r)
                        ELSE IF ~r.found THEN Out("none", "", "None", NoId, <<>>, r.reqs)
                        ELSE Out("none", "", "id", r.id, <<>>, r.reqs),
                        fault)
        /\ UNCHANGED <<Session, fetched, project_set, suite_set>>

\* the call has fetched the tests of the run: a get_tests request the server answered
FetchedTests(reqs, fault, rid) ==
    \E n \in 1..Len(reqs) :
        /\ reqs[n].ep = "get_tests" /\ reqs[n].a = rid
        /\ ~Response(reqs[n], n, fault).err

UpdateTestResult(rid, case_id, report, srv, fault) ==
    LET out == update_test_result(fault, srv, rid, case_id, report)
    IN  /\ last' = Call("update_test_result",
                        [NoArgs EXCEPT !.run = rid, !.case = case_id, !.outcome = report.outcome],
                        srv, out, fault)
        /\ fetched' = IF FetchedTests(out.reqs, fault, rid) THEN fetched \cup {rid} ELSE fetched
        /\ UNCHANGED <<Session, project_set, suite_set>>

\* send_get / send_post called directly: the server may answer with any body
SendRequest(method, resp) ==
    LET r == send_request(method, resp)
        req == Req(method, "get_users", NoId, NoId, NoBody)
    IN  /\ last' = [op |-> "send_request",
                    args |-> [NoArgs EXCEPT !.method = method, !.resp_err = resp.err, !.resp_body = resp.body],
                    srv |-> NoServer,
                    out |-> Out(r.exc, r.msg, IF r.exc = "none" THEN r.result.t ELSE "None",
                                IF r.exc = "none" THEN r.result.size ELSE NoId, <<>>, <<req>>),
                    http_error |-> resp.err]
        /\ UNCHANGED <<Session, fetched, project_set, suite_set>>

\* the caller takes the outcome of its call
Return ==
    /\ ~Ready
    /\ last' = NoCall
    /\ UNCHANGED <<Session, fetched, project_set, suite_set>>

\* the session and the transport: names are assigned, identifiers read,
\* requests sent, and an entry added to a plan
Next ==
    \/ Ready /\ \E n \in ProjectNames \cup {None}, f \in Faults : SetProject(n, f)
    \/ Ready /\ \E n \in SuiteNames \cup {None}, f \in Faults : SetSuite(n, f)
    \/ Ready /\ ReadProjectId
    \/ Ready /\ ReadSuiteId
    \/ Ready /\ \E m \in {"GET", "POST"}, e \in BOOLEAN, b \in Bodies \cup {DataBody} :
                   SendRequest(m, [err |-> e, body |-> b])
    \/ Ready /\ \E n \in RunNames, p \in PlanNames, c \in CaseIdArgs, f \in Faults :
                   AddDefaultTestRunEntryToPlan(n, p, c, f)
    \/ Return

Spec == Init /\ [][Next]_vars

\* plans and runs, on a session whose project is assigned or not
NextPlans ==
    \/ Ready /\ \E n \in {"Velocloud", None} : SetProject(n, NoFault)
    \/ Ready /\ \E n \in RunNames, p \in PlanNames, c \in CaseIdArgs, f \in Faults :
                   AddDefaultTestRunEntryToPlan(n, p, c, f)
    \/ Ready /\ \E n \in RunNames, p \in PlanNames, c \in CaseIdArgs, o \in Orders,
                   srv \in Servers, f \in Faults :
                   UpdateTestRun(n, p, c, o, srv, f)
    \/ Ready /\ \E p \in PlanNames, n \in RunNames, srv \in PlanServers, f \in Faults :
                   GetRunId(p, n, srv, f)
    \/ Return

SpecPlans == Init /\ [][NextPlans]_vars

\* results of the tests of a run
NextResults ==
    \/ Ready /\ \E r \in Runs, srv \in RunServers, f \in Faults : SetRunId(r, srv, f)
    \/ Ready /\ \E r \in Runs, c \in Cases \cup {MaxCase + 1}, rep \in Reports,
                   srv \in RunServers, f \in Faults :
                   UpdateTestResult(r, c, rep, srv, f)
    \/ Return

SpecResults == Init /\ [][NextResults]_vars

\* check_test_id_duplicate on every list of candidates and every run
NextReconcile ==
    \/ Ready /\ \E c \in CaseIdArgs, r \in Runs, o \in Orders, srv \in RunServers, f \in Faults :
                   CheckTestIdDuplicate(c, r, o, srv, f)
    \/ Return

SpecReconcile == Init /\ [][NextReconcile]_vars

-----------------------------------------------------------------------------
(* Properties *)

\* the requests of the last call that are POSTs
Posts == {n \in 1..Len(last.out.reqs) : last.out.reqs[n].method = "POST"}

\* the last call returned False without raising
ReturnedFalse == last.out.exc = "none" /\ last.out.ret = "False"

\* the server answered every request of the last call, and there was one
ServerAnswered == last.out.reqs # <<>> /\ ~last.http_error

\* C1: add_default_test_run_entry_to_plan called with case_ids equal to an
\* empty list returns False and issues no HTTP request
C1_EmptyCaseIdsRefused ==
    (last.op = "add_default_test_run_entry_to_plan"
        /\ ~last.args.case_ids.none /\ last.args.case_ids.list = <<>>)
    => (ReturnedFalse /\ last.out.reqs = <<>>)

\* C2: assigning a project or suite name that matches no entity the server
\* returned never raises an exception
C2_NoMatchNeverRaises ==
    (/\ last.op \in {"project=", "suite="}
     /\ last.args.name # None
     /\ ServerAnswered
     /\ last.op = "project=" => \A i \in 1..Len(Projects) : Projects[i].name # last.args.name
     /\ last.op = "suite=" => \A i \in 1..Len(SuitesOf(project_id)) :
                                  SuitesOf(project_id)[i].name # last.args.name)
    => last.out.exc = "none"

\* the plan list of the project was fetched and no plan has the name given
PlanAbsent ==
    /\ ServerAnswered
    /\ \A i \in 1..Len(PlansOf(project_id)) : PlansOf(project_id)[i].name # last.args.name

\* C3: add_default_test_run_entry_to_plan, update_test_run and get_run_id
\* fail with APIError, and issue no POST, when no plan of the project has
\* the name given
C3_AbsentPlanIsAPIError ==
    (last.op \in {"add_default_test_run_entry_to_plan", "update_test_run", "get_run_id"}
        /\ PlanAbsent)
    => (last.out.exc = "APIError" /\ Posts = {})

\* C4: an HTTP error status makes the transport fail with APIError whatever
\* the body is, with the generic message unless the body is a JSON object
\* with an error field; a successful response with an empty body returns an
\* empty structure
C4_HttpErrorIsAPIError ==
    last.op = "send_request"
    => /\ last.args.resp_err =>
            /\ last.out.exc = "APIError"
            /\ last.args.resp_body \notin {ErrorBody, "{\"error\": 5}"} => last.out.msg = GenericError
       /\ (~last.args.resp_err /\ last.args.resp_body = "") =>
            (last.out.exc = "none" /\ last.out.ret = "dict" /\ last.out.ret_id = 0)

\* the case records update_test_result consults for the run of the last
\* call: the cached list, or else the list the server returns
RecordsOfRun ==
    IF last.args.run \in DOMAIN cases_in_run THEN cases_in_run[last.args.run]
    ELSE TestsOfRun(last.srv, last.args.run)

\* the case of the last call is among the case records of its run
CaseInRun == \E i \in 1..Len(RecordsOfRun) : RecordsOfRun[i].case_id = last.args.case

\* C5: update_test_result for a case id that is not among the case records
\* of the run returns False, raises no exception and issues no POST
C5_AbsentCaseReturnsFalse ==
    (last.op = "update_test_result" /\ ~last.http_error /\ ~CaseInRun)
    => (ReturnedFalse /\ Posts = {})

C5_Witness ==
    /\ last.op = "update_test_result" /\ ~last.http_error /\ ~CaseInRun
    /\ RecordsOfRun # <<>>
    /\ last.out.reqs # <<>>

\* the plan "Regression" of the last call, and the run get_run_id resolves in it
PlanEntries == EntriesOfPlan(last.srv, 1)
RunResolved == FirstRunMatch(PlanEntries, last.args.run_name)
ExistingCases ==
    IF RunResolved = 0 THEN {}
    ELSE Range(CaseIdsOf(TestsOfRun(last.srv, PlanEntries[RunResolved].runs[1].id)))
IncomingCases == Range(last.args.case_ids.list)

\* update_test_run was given a list, found a plan entry whose name contains
\* the run name, and the server answered its requests
EntryFound ==
    /\ last.op = "update_test_run"
    /\ ~last.args.case_ids.none
    /\ ServerAnswered
    /\ last.args.name = "Regression"
    /\ \E i \in 1..Len(PlanEntries) : IsSubstring(last.args.run_name, PlanEntries[i].name)

\* the last request of the last call is the POST to update_plan_entry, with
\* include_all false and the union of the incoming and the existing case ids
PostsUnion ==
    /\ Posts = {Len(last.out.reqs)}
    /\ last.out.reqs[Len(last.out.reqs)].ep = "update_plan_entry"
    /\ ~last.out.reqs[Len(last.out.reqs)].body.include_all
    /\ Range(last.out.reqs[Len(last.out.reqs)].body.case_ids) = IncomingCases \cup ExistingCases

\* C6, as stated: when update_test_run finds a plan entry matching the run
\* name it posts the union of the incoming and the existing case ids, for
\* every incoming list
C6_AlwaysPostsUnion == EntryFound => PostsUnion

\* C6, amended: it posts the union when some incoming case id is not yet in
\* the run; when every incoming id is already in the run (or the list is
\* empty) it returns False and issues no POST
C6_PostsUnionOfNewAndExisting ==
    EntryFound =>
        IF IncomingCases \subseteq ExistingCases THEN ReturnedFalse /\ Posts = {}
        ELSE PostsUnion

C6_Witness ==
    /\ EntryFound
    /\ IncomingCases \cap ExistingCases # {}
    /\ IncomingCases \ ExistingCases # {}
    /\ PostsUnion

\* C7: check_test_id_duplicate returns a list whose elements are exactly the
\* candidates that are not case ids of the run's tests, each appearing once
C7_NewCandidatesOnce ==
    (last.op = "check_test_id_duplicate" /\ ~last.args.case_ids.none /\ ~last.http_error)
    => /\ last.out.exc = "none" /\ last.out.ret = "list"
       /\ Range(last.out.ret_list)
            = IncomingCases \ Range(CaseIdsOf(TestsOfRun(last.srv, last.args.run)))
       /\ Cardinality(Range(last.out.ret_list)) = Len(last.out.ret_list)

C7_Witness ==
    /\ last.op = "check_test_id_duplicate" /\ ~last.args.case_ids.none /\ ~last.http_error
    /\ Len(last.args.case_ids.list) > Cardinality(IncomingCases)
    /\ last.out.ret_list # <<>>

\* C8: every add_results POST of update_test_result carries exactly one
\* result record, with the test id the case resolves to in the run and with
\* status_id 1 when the outcome is "passed" and 5 otherwise
C8_OneResultWithMappedStatus ==
    last.op = "update_test_result" =>
        \A n \in Posts :
            /\ last.out.reqs[n].ep = "add_results" /\ last.out.reqs[n].a = last.args.run
            /\ Len(last.out.reqs[n].body.results) = 1
            /\ \E i \in 1..Len(RecordsOfRun) :
                  /\ RecordsOfRun[i].case_id = last.args.case
                  /\ RecordsOfRun[i].id = last.out.reqs[n].body.results[1].test_id
            /\ last.out.reqs[n].body.results[1].status_id
                  = IF last.args.outcome = "passed" THEN 1 ELSE 5

C8_Witness ==
    /\ last.op = "update_test_result"
    /\ Posts # {}
    /\ last.args.outcome = "skipped"
    /\ last.args.run \in DOMAIN cases_in_run

\* C9: reading project_id or suite_id while its name was never successfully
\* assigned since it was assigned None fails with EnvironmentError and
\* issues no HTTP request
C9_UnresolvedIdIsConfigurationError ==
    /\ (last.op = "project_id" /\ ~project_set)
          => (last.out.exc = "EnvironmentError" /\ last.out.reqs = <<>>)
    /\ (last.op = "suite_id" /\ ~suite_set)
          => (last.out.exc = "EnvironmentError" /\ last.out.reqs = <<>>)

C9_Witness ==
    /\ last.op = "project_id" /\ ~project_set
    /\ project = "Nope"

\* C10: once update_test_result has fetched the case records of a run, no
\* later update_test_result call for that run requests get_tests of it again
C10_FetchedOncePerRun ==
    [][(last'.op = "update_test_result" /\ last'.args.run \in fetched)
        => \A n \in 1..Len(last'.out.reqs) :
              ~(last'.out.reqs[n].ep = "get_tests" /\ last'.out.reqs[n].a = last'.args.run)]_vars

\* the requests of the last call to the endpoint ep
RequestsTo(ep) == {n \in 1..Len(last.out.reqs) : last.out.reqs[n].ep = ep}

\* the run r and the entry e are the run and the entry id of the first entry
\* of the plan whose name contains the run name of the last call
SameFirstEntry(plan_entries, r, e) ==
    /\ FirstEntryMatch(plan_entries, last.args.run_name) # 0
    /\ plan_entries[FirstEntryMatch(plan_entries, last.args.run_name)].runs[1].id = r
    /\ plan_entries[FirstEntryMatch(plan_entries, last.args.run_name)].runs[1].entry_id = e

\* C11: in update_test_run the run whose tests are read (get_tests) and the
\* plan entry that is updated (update_plan_entry) belong to the same entry of
\* the plan, the first one that matches the run name
C11_RunAndEntryOfSameEntry ==
    last.op = "update_test_run" =>
        \A g \in RequestsTo("get_tests"), u \in RequestsTo("update_plan_entry") :
            SameFirstEntry(EntriesOfPlan(last.srv, last.out.reqs[u].a),
                           last.out.reqs[g].a, last.out.reqs[u].b)

\* the id the server holds for the stored project name, NoId when it holds none
ProjectIdOfName ==
    IF FirstByName(Projects, project) = 0 THEN NoId
    ELSE Projects[FirstByName(Projects, project)].id

\* C12: whatever assignments to project and suite were made, and whether they
\* succeeded, the stored project id is the id of the stored project name and
\* is unset exactly when the name is None; likewise for the suite
C12_IdFollowsName ==
    /\ (project = None) <=> (project_id = NoId)
    /\ project # None => project_id = ProjectIdOfName
    /\ (suite = None) <=> (suite_id = NoId)
    /\ suite # None =>
          \E pid \in {Projects[k].id : k \in 1..Len(Projects)} :
              /\ FirstByName(SuitesOf(pid), suite) # 0
              /\ SuitesOf(pid)[FirstByName(SuitesOf(pid), suite)].id = suite_id

====
